---- MODULE Spec2Model ----
(***************************************************************************)
(* WindowExpression (duckdb/parser/expression/window_expression.hpp).      *)
(*                                                                         *)
(* A WindowExpression owns its sub-expressions through unique_ptr.  The    *)
(* model keeps them in a heap: an address is an index into `heap`, 0 is    *)
(* the null pointer, and a heap cell holds the text the sub-expression     *)
(* renders to.  A string is a sequence of atoms: a word, a single space,   *)
(* or one punctuation character; concatenating the atoms gives the C++     *)
(* string, and two strings are equal exactly when their atoms are.         *)
(***************************************************************************)
EXTENDS Integers, Sequences, FiniteSets

VARIABLES
    entry,   \* the WindowExpression under test (fields hold heap addresses)
    heap,    \* the owned sub-expressions: address -> rendered text
    clone,   \* <<>> or <<c>>: the result of entry.Copy()
    out,     \* the outcome of the last ToString(entry) call
    locals,  \* from / to / units of that call at line 223
    eq,      \* the result of the last Equal(entry, clone) call
    nmut     \* number of mutations applied to the clone

vars == <<entry, heap, clone, out, locals, eq, nmut>>

----------------------------------------------------------------------------
(* Bounds of the model *)

MaxChildren == 2
MaxPartitions == 1
MaxOrders == 1
MaxArgOrders == 1
MaxMutations == 1

----------------------------------------------------------------------------
(* Enumerations, lines 16-29 *)

WindowBoundary ==
    {"INVALID", "UNBOUNDED_PRECEDING", "UNBOUNDED_FOLLOWING", "CURRENT_ROW_RANGE",
     "CURRENT_ROW_ROWS", "EXPR_PRECEDING_ROWS", "EXPR_FOLLOWING_ROWS",
     "EXPR_PRECEDING_RANGE", "EXPR_FOLLOWING_RANGE"}

WindowExcludeMode == {"NO_OTHER", "CURRENT_ROW", "GROUP", "TIES"}

----------------------------------------------------------------------------
(* Strings *)

SeqsUpTo(S, n) == UNION {[1..k -> S] : k \in 0..n}

RECURSIVE Join(_, _)
\* StringUtil::Join(input, count, separator, f), on the already mapped texts
Join(texts, separator) ==
    IF texts = <<>> THEN <<>>
    ELSE IF Len(texts) = 1 THEN texts[1]
    ELSE texts[1] \o separator \o Join(Tail(texts), separator)

\* child->ToString() of an owned, non-null sub-expression
ExprToString(h, addr) == <<h[addr]>>

----------------------------------------------------------------------------
(* ToString, lines 95-259 *)

\* Outcome of a call: a returned string, or a thrown InternalException
Returned(text) == [kind |-> "text", text |-> text, msg |-> ""]
Thrown(msg) == [kind |-> "error", text |-> <<>>, msg |-> msg]

\* line 98
QualifiedName(e) ==
    IF e.schema = "" THEN <<e.function_name>>
    ELSE <<e.schema, ".", e.function_name>>

\* the value `distincts` has when the lambda of line 104 runs for the i-th
\* child: initialised at line 102, post-incremented by every earlier call
DistinctCounterNoIncrement(e, i) == IF e.distinct THEN 0 ELSE 1

DistinctCounter(e, i) == (IF e.distinct THEN 0 ELSE 1) + (i - 1)

\* lines 100-106
ChildrenText(e, h) ==
    IF Len(e.children) # 0
    THEN Join([i \in 1..Len(e.children) |->
                  (IF DistinctCounter(e, i) # 0 THEN <<>> ELSE <<"DISTINCT", " ">>)
                  \o ExprToString(h, e.children[i])],
              <<",", " ">>)
    ELSE <<>>

\* lines 107-115
LeadLagText(e, h) ==
    (IF e.offset_expr # 0 THEN <<",", " ">> \o ExprToString(h, e.offset_expr) ELSE <<>>)
    \o (IF e.default_expr # 0 THEN <<",", " ">> \o ExprToString(h, e.default_expr) ELSE <<>>)

\* lines 116-121
ArgOrdersText(e, h) ==
    IF e.arg_orders # <<>>
    THEN <<" ", "ORDER", " ", "BY", " ">>
         \o Join([i \in 1..Len(e.arg_orders) |-> ExprToString(h, e.arg_orders[i])],
                 <<",", " ">>)
    ELSE <<>>

\* lines 123-126
IgnoreNullsText(e) ==
    IF e.ignore_nulls THEN <<" ", "IGNORE", " ", "NULLS">> ELSE <<>>

FilterTextNoClose(e, h) ==
    IF e.filter_expr # 0
    THEN <<" ", "FILTER", " ", "(", "WHERE", " ">> \o ExprToString(h, e.filter_expr)
    ELSE <<>>

\* lines 127-130
FilterText(e, h) ==
    IF e.filter_expr # 0
    THEN <<")", " ", "FILTER", " ", "(", "WHERE", " ">> \o ExprToString(h, e.filter_expr)
    ELSE <<>>

\* lines 98-133: the function call up to and including ") OVER ("
CallText(e, h) ==
    QualifiedName(e) \o <<"(">> \o ChildrenText(e, h) \o LeadLagText(e, h)
    \o ArgOrdersText(e, h) \o IgnoreNullsText(e) \o FilterText(e, h)
    \o <<")", " ", "OVER", " ", "(">>

\* lines 134-151: PARTITION BY / ORDER BY and the separator owed afterwards
PartitionOrderText(e, h) ==
    LET part == IF e.partitions # <<>>
                THEN [text |-> <<"PARTITION", " ", "BY", " ">>
                               \o Join([i \in 1..Len(e.partitions) |->
                                           ExprToString(h, e.partitions[i])],
                                       <<",", " ">>),
                      sep |-> <<" ">>]
                ELSE [text |-> <<>>, sep |-> <<>>]
    IN  IF e.orders # <<>>
        THEN [text |-> part.text \o part.sep \o <<"ORDER", " ", "BY", " ">>
                       \o Join([i \in 1..Len(e.orders) |-> ExprToString(h, e.orders[i])],
                               <<",", " ">>),
              sep |-> <<" ">>]
        ELSE part

\* entry.start_expr->ToString() / entry.end_expr->ToString(): dereferencing
\* a null duckdb::unique_ptr raises an InternalException
DerefThrows(ptr) == ptr = 0

NullDeref == "Attempted to dereference unique_ptr that is NULL!"

BoundResult(thrown, msg, text, units) ==
    [thrown |-> thrown, msg |-> msg, text |-> text, units |-> units]

RowsOrRange(boundary, range) == IF boundary = range THEN "RANGE" ELSE "ROWS"

\* lines 154-179 with the InternalException of line 178 left out
StartBoundNoThrow(e, h) ==
    CASE e.start \in {"CURRENT_ROW_RANGE", "CURRENT_ROW_ROWS"} ->
            BoundResult(FALSE, "", <<"CURRENT", " ", "ROW">>,
                        RowsOrRange(e.start, "CURRENT_ROW_RANGE"))
      [] e.start = "UNBOUNDED_PRECEDING" ->
            BoundResult(FALSE, "",
                        IF e.end # "CURRENT_ROW_RANGE"
                        THEN <<"UNBOUNDED", " ", "PRECEDING">> ELSE <<>>,
                        "ROWS")
      [] e.start \in {"EXPR_PRECEDING_ROWS", "EXPR_PRECEDING_RANGE"} ->
            IF DerefThrows(e.start_expr) THEN BoundResult(TRUE, NullDeref, <<>>, "ROWS")
            ELSE BoundResult(FALSE, "",
                             ExprToString(h, e.start_expr) \o <<" ", "PRECEDING">>,
                             RowsOrRange(e.start, "EXPR_PRECEDING_RANGE"))
      [] e.start \in {"EXPR_FOLLOWING_ROWS", "EXPR_FOLLOWING_RANGE"} ->
            IF DerefThrows(e.start_expr) THEN BoundResult(TRUE, NullDeref, <<>>, "ROWS")
            ELSE BoundResult(FALSE, "",
                             ExprToString(h, e.start_expr) \o <<" ", "FOLLOWING">>,
                             RowsOrRange(e.start, "EXPR_FOLLOWING_RANGE"))
      [] OTHER -> BoundResult(FALSE, "", <<>>, "ROWS")

\* lines 154-179 with the elision of line 163 left out
StartBoundNoElision(e, h) ==
    CASE e.start \in {"CURRENT_ROW_RANGE", "CURRENT_ROW_ROWS"} ->
            BoundResult(FALSE, "", <<"CURRENT", " ", "ROW">>,
                        RowsOrRange(e.start, "CURRENT_ROW_RANGE"))
      [] e.start = "UNBOUNDED_PRECEDING" ->
            BoundResult(FALSE, "", <<"UNBOUNDED", " ", "PRECEDING">>, "ROWS")
      [] e.start \in {"EXPR_PRECEDING_ROWS", "EXPR_PRECEDING_RANGE"} ->
            IF DerefThrows(e.start_expr) THEN BoundResult(TRUE, NullDeref, <<>>, "ROWS")
            ELSE BoundResult(FALSE, "",
                             ExprToString(h, e.start_expr) \o <<" ", "PRECEDING">>,
                             RowsOrRange(e.start, "EXPR_PRECEDING_RANGE"))
      [] e.start \in {"EXPR_FOLLOWING_ROWS", "EXPR_FOLLOWING_RANGE"} ->
            IF DerefThrows(e.start_expr) THEN BoundResult(TRUE, NullDeref, <<>>, "ROWS")
            ELSE BoundResult(FALSE, "",
                             ExprToString(h, e.start_expr) \o <<" ", "FOLLOWING">>,
                             RowsOrRange(e.start, "EXPR_FOLLOWING_RANGE"))
      [] OTHER -> BoundResult(TRUE, "Unrecognized FROM in WindowExpression", <<>>, "ROWS")

\* lines 154-179 with the elision of line 163 taken whatever the end is
StartBoundAlwaysElides(e, h) ==
    CASE e.start \in {"CURRENT_ROW_RANGE", "CURRENT_ROW_ROWS"} ->
            BoundResult(FALSE, "", <<"CURRENT", " ", "ROW">>,
                        RowsOrRange(e.start, "CURRENT_ROW_RANGE"))
      [] e.start = "UNBOUNDED_PRECEDING" ->
            BoundResult(FALSE, "", <<>>, "ROWS")
      [] e.start \in {"EXPR_PRECEDING_ROWS", "EXPR_PRECEDING_RANGE"} ->
            IF DerefThrows(e.start_expr) THEN BoundResult(TRUE, NullDeref, <<>>, "ROWS")
            ELSE BoundResult(FALSE, "",
                             ExprToString(h, e.start_expr) \o <<" ", "PRECEDING">>,
                             RowsOrRange(e.start, "EXPR_PRECEDING_RANGE"))
      [] e.start \in {"EXPR_FOLLOWING_ROWS", "EXPR_FOLLOWING_RANGE"} ->
            IF DerefThrows(e.start_expr) THEN BoundResult(TRUE, NullDeref, <<>>, "ROWS")
            ELSE BoundResult(FALSE, "",
                             ExprToString(h, e.start_expr) \o <<" ", "FOLLOWING">>,
                             RowsOrRange(e.start, "EXPR_FOLLOWING_RANGE"))
      [] OTHER -> BoundResult(TRUE, "Unrecognized FROM in WindowExpression", <<>>, "ROWS")

\* lines 154-179: `from` and the units after the switch on entry.start
StartBound(e, h) ==
    CASE e.start \in {"CURRENT_ROW_RANGE", "CURRENT_ROW_ROWS"} ->
            BoundResult(FALSE, "", <<"CURRENT", " ", "ROW">>,
                        RowsOrRange(e.start, "CURRENT_ROW_RANGE"))
      [] e.start = "UNBOUNDED_PRECEDING" ->
            BoundResult(FALSE, "",
                        IF e.end # "CURRENT_ROW_RANGE"
                        THEN <<"UNBOUNDED", " ", "PRECEDING">> ELSE <<>>,
                        "ROWS")
      [] e.start \in {"EXPR_PRECEDING_ROWS", "EXPR_PRECEDING_RANGE"} ->
            IF DerefThrows(e.start_expr) THEN BoundResult(TRUE, NullDeref, <<>>, "ROWS")
            ELSE BoundResult(FALSE, "",
                             ExprToString(h, e.start_expr) \o <<" ", "PRECEDING">>,
                             RowsOrRange(e.start, "EXPR_PRECEDING_RANGE"))
      [] e.start \in {"EXPR_FOLLOWING_ROWS", "EXPR_FOLLOWING_RANGE"} ->
            IF DerefThrows(e.start_expr) THEN BoundResult(TRUE, NullDeref, <<>>, "ROWS")
            ELSE BoundResult(FALSE, "",
                             ExprToString(h, e.start_expr) \o <<" ", "FOLLOWING">>,
                             RowsOrRange(e.start, "EXPR_FOLLOWING_RANGE"))
      [] OTHER -> BoundResult(TRUE, "Unrecognized FROM in WindowExpression", <<>>, "ROWS")

\* lines 181-211 with the assignment of line 191 left out
EndBoundKeepsUnits(e, h, units) ==
    CASE e.end = "CURRENT_ROW_RANGE" ->
            IF e.start # "UNBOUNDED_PRECEDING"
            THEN BoundResult(FALSE, "", <<"CURRENT", " ", "ROW">>, "RANGE")
            ELSE BoundResult(FALSE, "", <<>>, units)
      [] e.end = "CURRENT_ROW_ROWS" ->
            BoundResult(FALSE, "", <<"CURRENT", " ", "ROW">>, units)
      [] e.end = "UNBOUNDED_PRECEDING" ->
            BoundResult(FALSE, "", <<"UNBOUNDED", " ", "PRECEDING">>, units)
      [] e.end = "UNBOUNDED_FOLLOWING" ->
            BoundResult(FALSE, "", <<"UNBOUNDED", " ", "FOLLOWING">>, units)
      [] e.end \in {"EXPR_PRECEDING_ROWS", "EXPR_PRECEDING_RANGE"} ->
            IF DerefThrows(e.end_expr) THEN BoundResult(TRUE, NullDeref, <<>>, units)
            ELSE BoundResult(FALSE, "",
                             ExprToString(h, e.end_expr) \o <<" ", "PRECEDING">>,
                             RowsOrRange(e.end, "EXPR_PRECEDING_RANGE"))
      [] e.end \in {"EXPR_FOLLOWING_ROWS", "EXPR_FOLLOWING_RANGE"} ->
            IF DerefThrows(e.end_expr) THEN BoundResult(TRUE, NullDeref, <<>>, units)
            ELSE BoundResult(FALSE, "",
                             ExprToString(h, e.end_expr) \o <<" ", "FOLLOWING">>,
                             RowsOrRange(e.end, "EXPR_FOLLOWING_RANGE"))
      [] OTHER -> BoundResult(TRUE, "Unrecognized TO in WindowExpression", <<>>, units)

\* lines 181-211 with the case of lines 193-195 left out
EndBoundRejectsUnboundedPreceding(e, h, units) ==
    CASE e.end = "CURRENT_ROW_RANGE" ->
            IF e.start # "UNBOUNDED_PRECEDING"
            THEN BoundResult(FALSE, "", <<"CURRENT", " ", "ROW">>, "RANGE")
            ELSE BoundResult(FALSE, "", <<>>, units)
      [] e.end = "CURRENT_ROW_ROWS" ->
            BoundResult(FALSE, "", <<"CURRENT", " ", "ROW">>, "ROWS")
      [] e.end = "UNBOUNDED_PRECEDING" ->
            BoundResult(TRUE, "Unrecognized TO in WindowExpression", <<>>, units)
      [] e.end = "UNBOUNDED_FOLLOWING" ->
            BoundResult(FALSE, "", <<"UNBOUNDED", " ", "FOLLOWING">>, units)
      [] e.end \in {"EXPR_PRECEDING_ROWS", "EXPR_PRECEDING_RANGE"} ->
            IF DerefThrows(e.end_expr) THEN BoundResult(TRUE, NullDeref, <<>>, units)
            ELSE BoundResult(FALSE, "",
                             ExprToString(h, e.end_expr) \o <<" ", "PRECEDING">>,
                             RowsOrRange(e.end, "EXPR_PRECEDING_RANGE"))
      [] e.end \in {"EXPR_FOLLOWING_ROWS", "EXPR_FOLLOWING_RANGE"} ->
            IF DerefThrows(e.end_expr) THEN BoundResult(TRUE, NullDeref, <<>>, units)
            ELSE BoundResult(FALSE, "",
                             ExprToString(h, e.end_expr) \o <<" ", "FOLLOWING">>,
                             RowsOrRange(e.end, "EXPR_FOLLOWING_RANGE"))
      [] OTHER -> BoundResult(TRUE, "Unrecognized TO in WindowExpression", <<>>, units)

\* lines 181-211: `to` and the units after the switch on entry.end;
\* `units` is the value the switch on entry.start left
EndBound(e, h, units) ==
    CASE e.end = "CURRENT_ROW_RANGE" ->
            IF e.start # "UNBOUNDED_PRECEDING"
            THEN BoundResult(FALSE, "", <<"CURRENT", " ", "ROW">>, "RANGE")
            ELSE BoundResult(FALSE, "", <<>>, units)
      [] e.end = "CURRENT_ROW_ROWS" ->
            BoundResult(FALSE, "", <<"CURRENT", " ", "ROW">>, "ROWS")
      [] e.end = "UNBOUNDED_PRECEDING" ->
            BoundResult(FALSE, "", <<"UNBOUNDED", " ", "PRECEDING">>, units)
      [] e.end = "UNBOUNDED_FOLLOWING" ->
            BoundResult(FALSE, "", <<"UNBOUNDED", " ", "FOLLOWING">>, units)
      [] e.end \in {"EXPR_PRECEDING_ROWS", "EXPR_PRECEDING_RANGE"} ->
            IF DerefThrows(e.end_expr) THEN BoundResult(TRUE, NullDeref, <<>>, units)
            ELSE BoundResult(FALSE, "",
                             ExprToString(h, e.end_expr) \o <<" ", "PRECEDING">>,
                             RowsOrRange(e.end, "EXPR_PRECEDING_RANGE"))
      [] e.end \in {"EXPR_FOLLOWING_ROWS", "EXPR_FOLLOWING_RANGE"} ->
            IF DerefThrows(e.end_expr) THEN BoundResult(TRUE, NullDeref, <<>>, units)
            ELSE BoundResult(FALSE, "",
                             ExprToString(h, e.end_expr) \o <<" ", "FOLLOWING">>,
                             RowsOrRange(e.end, "EXPR_FOLLOWING_RANGE"))
      [] OTHER -> BoundResult(TRUE, "Unrecognized TO in WindowExpression", <<>>, units)

\* lines 212-221 with the body of the if left out
ExcludeFillNothing(e, from, to, units) ==
    [from |-> from, to |-> to, units |-> units]

\* lines 212-221: an explicit EXCLUDE fills in the elided bounds
ExcludeFill(e, from, to, units) ==
    IF e.exclude_clause # "NO_OTHER"
    THEN [from |-> IF from = <<>> THEN <<"UNBOUNDED", " ", "PRECEDING">> ELSE from,
          to |-> IF to = <<>> THEN <<"CURRENT", " ", "ROW">> ELSE to,
          units |-> IF to = <<>> THEN "RANGE" ELSE units]
    ELSE [from |-> from, to |-> to, units |-> units]

\* lines 223-237
FrameText(sep, from, to, units) ==
    (IF from # <<>> \/ to # <<>> THEN sep \o <<units>> ELSE <<>>)
    \o (IF from # <<>> /\ to # <<>>
        THEN <<" ", "BETWEEN", " ">> \o from \o <<" ", "AND", " ">> \o to
        ELSE IF from # <<>> THEN <<" ">> \o from
        ELSE IF to # <<>> THEN <<" ">> \o to
        ELSE <<>>)

\* lines 239-254 with GROUP printed as TIES
ExcludeTextGroupAsTies(e) ==
    (IF e.exclude_clause # "NO_OTHER" THEN <<" ", "EXCLUDE", " ">> ELSE <<>>)
    \o (CASE e.exclude_clause = "CURRENT_ROW" -> <<"CURRENT", " ", "ROW">>
          [] e.exclude_clause = "GROUP" -> <<"TIES">>
          [] e.exclude_clause = "TIES" -> <<"TIES">>
          [] OTHER -> <<>>)

\* lines 239-254
ExcludeText(e) ==
    (IF e.exclude_clause # "NO_OTHER" THEN <<" ", "EXCLUDE", " ">> ELSE <<>>)
    \o (CASE e.exclude_clause = "CURRENT_ROW" -> <<"CURRENT", " ", "ROW">>
          [] e.exclude_clause = "GROUP" -> <<"GROUP">>
          [] e.exclude_clause = "TIES" -> <<"TIES">>
          [] OTHER -> <<>>)

\* from / to / units when line 223 is reached (the switches did not throw)
FrameLocals(e, h) ==
    LET s == StartBound(e, h)
        t == EndBound(e, h, s.units)
    IN  ExcludeFill(e, s.text, t.text, t.units)

NoLocals == [from |-> <<>>, to |-> <<>>, units |-> ""]

\* lines 95-259: a throw abandons the accumulated `result`
ToString(e, h) ==
    LET s == StartBound(e, h)
        t == EndBound(e, h, s.units)
        po == PartitionOrderText(e, h)
        f == FrameLocals(e, h)
    IN  IF s.thrown THEN Thrown(s.msg)
        ELSE IF t.thrown THEN Thrown(t.msg)
        ELSE Returned(CallText(e, h) \o po.text
                      \o FrameText(po.sep, f.from, f.to, f.units)
                      \o ExcludeText(e) \o <<")">>)

----------------------------------------------------------------------------
(* Construction: the fields of lines 43-75 laid out over fresh heap cells *)

OptAddr(base, opt) == IF opt = <<>> THEN 0 ELSE base + 1

\* A WindowExpression owning fresh cells base+1, base+2, ... that hold the
\* texts of `v`; optional sub-expressions of `v` are sequences of length <= 1
Layout(v, base) ==
    LET b1 == base + Len(v.children)
        b2 == b1 + Len(v.partitions)
        b3 == b2 + Len(v.orders)
        b4 == b3 + Len(v.arg_orders)
        b5 == b4 + Len(v.filter_expr)
        b6 == b5 + Len(v.start_expr)
        b7 == b6 + Len(v.end_expr)
        b8 == b7 + Len(v.offset_expr)
    IN  [obj |-> [catalog |-> v.catalog,
                  schema |-> v.schema,
                  function_name |-> v.function_name,
                  children |-> [i \in 1..Len(v.children) |-> base + i],
                  partitions |-> [i \in 1..Len(v.partitions) |-> b1 + i],
                  orders |-> [i \in 1..Len(v.orders) |-> b2 + i],
                  filter_expr |-> OptAddr(b4, v.filter_expr),
                  ignore_nulls |-> v.ignore_nulls,
                  distinct |-> v.distinct,
                  start |-> v.start,
                  end |-> v.end,
                  exclude_clause |-> v.exclude_clause,
                  start_expr |-> OptAddr(b5, v.start_expr),
                  end_expr |-> OptAddr(b6, v.end_expr),
                  offset_expr |-> OptAddr(b7, v.offset_expr),
                  default_expr |-> OptAddr(b8, v.default_expr),
                  arg_orders |-> [i \in 1..Len(v.arg_orders) |-> b3 + i]],
         cells |-> v.children \o v.partitions \o v.orders \o v.arg_orders
                   \o v.filter_expr \o v.start_expr \o v.end_expr
                   \o v.offset_expr \o v.default_expr]

OptValue(h, ptr) == IF ptr = 0 THEN <<>> ELSE <<h[ptr]>>

\* The value of a WindowExpression: every field with its sub-expressions
\* read through the pointers
DeepValue(e, h) ==
    [catalog |-> e.catalog,
     schema |-> e.schema,
     function_name |-> e.function_name,
     children |-> [i \in 1..Len(e.children) |-> h[e.children[i]]],
     partitions |-> [i \in 1..Len(e.partitions) |-> h[e.partitions[i]]],
     orders |-> [i \in 1..Len(e.orders) |-> h[e.orders[i]]],
     filter_expr |-> OptValue(h, e.filter_expr),
     ignore_nulls |-> e.ignore_nulls,
     distinct |-> e.distinct,
     start |-> e.start,
     end |-> e.end,
     exclude_clause |-> e.exclude_clause,
     start_expr |-> OptValue(h, e.start_expr),
     end_expr |-> OptValue(h, e.end_expr),
     offset_expr |-> OptValue(h, e.offset_expr),
     default_expr |-> OptValue(h, e.default_expr),
     arg_orders |-> [i \in 1..Len(e.arg_orders) |-> h[e.arg_orders[i]]]]

\* The heap cells a WindowExpression owns
OwnedAddrs(e) ==
    ({e.children[i] : i \in 1..Len(e.children)}
     \cup {e.partitions[i] : i \in 1..Len(e.partitions)}
     \cup {e.orders[i] : i \in 1..Len(e.orders)}
     \cup {e.arg_orders[i] : i \in 1..Len(e.arg_orders)}
     \cup {e.filter_expr, e.start_expr, e.end_expr, e.offset_expr, e.default_expr})
    \ {0}

----------------------------------------------------------------------------
(* Equal and Copy, lines 85-87 *)

\* Copy() with the sub-expressions shared instead of copied
CopyShallow(e, h) == [obj |-> e, heap |-> h]

\* Copy(): a new WindowExpression owning fresh deep copies of every
\* sub-expression; enumerations and flags are copied by value
Copy(e, h) ==
    LET l == Layout(DeepValue(e, h), Len(h))
    IN  [obj |-> l.obj, heap |-> h \o l.cells]

\* Equal(a, b): every field equal, sequences element-wise and in order,
\* sub-expressions by their own structural equality
Equal(a, b, h) == DeepValue(a, h) = DeepValue(b, h)

----------------------------------------------------------------------------
(* Inputs *)

Optional(S) == {<<>>} \cup {<<x>> : x \in S}

ExprBoundaries ==
    {"EXPR_PRECEDING_ROWS", "EXPR_FOLLOWING_ROWS",
     "EXPR_PRECEDING_RANGE", "EXPR_FOLLOWING_RANGE"}

\* Every frame (boundaries, EXCLUDE, offset expressions present or not)
\* under every PARTITION BY / ORDER BY shape, on the call f(a)
FrameInputs ==
    {[catalog |-> "", schema |-> "", function_name |-> "f",
      children |-> <<"a">>, partitions |-> pa, orders |-> ob,
      filter_expr |-> <<>>, ignore_nulls |-> FALSE, distinct |-> FALSE,
      start |-> st, end |-> en, exclude_clause |-> ex,
      start_expr |-> se, end_expr |-> ee,
      offset_expr |-> <<>>, default_expr |-> <<>>, arg_orders |-> <<>>] :
        st \in WindowBoundary, en \in WindowBoundary, ex \in WindowExcludeMode,
        se \in Optional({"1"}), ee \in Optional({"1"}),
        pa \in SeqsUpTo({"p"}, MaxPartitions), ob \in SeqsUpTo({"s"}, MaxOrders)}

CallFrames ==
    {<<"UNBOUNDED_PRECEDING", "CURRENT_ROW_RANGE", "NO_OTHER">>,
     <<"EXPR_PRECEDING_ROWS", "CURRENT_ROW_ROWS", "TIES">>,
     <<"INVALID", "UNBOUNDED_FOLLOWING", "GROUP">>}

\* Every shape of the function call, under three frames
CallInputs ==
    {[catalog |-> "", schema |-> sc, function_name |-> "f",
      children |-> ch, partitions |-> <<"p">>, orders |-> <<>>,
      filter_expr |-> fi, ignore_nulls |-> nu, distinct |-> di,
      start |-> fr[1], end |-> fr[2], exclude_clause |-> fr[3],
      start_expr |-> <<"1">>, end_expr |-> <<>>,
      offset_expr |-> of, default_expr |-> de, arg_orders |-> ao] :
        sc \in {"", "main"}, ch \in SeqsUpTo({"a", "b"}, MaxChildren),
        fi \in Optional({"c"}), nu \in BOOLEAN, di \in BOOLEAN,
        fr \in CallFrames, of \in Optional({"k"}), de \in Optional({"d"}),
        ao \in SeqsUpTo({"x"}, MaxArgOrders)}

\* Well-formed expressions for the copy / mutate / compare runs
CopyInputs ==
    {[catalog |-> "", schema |-> "", function_name |-> "f",
      children |-> ch, partitions |-> pa, orders |-> <<>>,
      filter_expr |-> fi, ignore_nulls |-> FALSE, distinct |-> di,
      start |-> st, end |-> "CURRENT_ROW_RANGE", exclude_clause |-> ex,
      start_expr |-> IF st \in ExprBoundaries THEN <<"1">> ELSE <<>>,
      end_expr |-> <<>>,
      offset_expr |-> <<>>, default_expr |-> <<>>, arg_orders |-> <<>>] :
        ch \in SeqsUpTo({"a"}, MaxChildren), pa \in SeqsUpTo({"p"}, MaxPartitions),
        fi \in Optional({"c"}), di \in BOOLEAN,
        st \in {"UNBOUNDED_PRECEDING", "EXPR_PRECEDING_ROWS"},
        ex \in {"NO_OTHER", "TIES"}}

NoOutcome == [kind |-> "none", text |-> <<>>, msg |-> ""]

InitWith(inputs) ==
    /\ \E v \in inputs :
          /\ entry = Layout(v, 0).obj
          /\ heap = Layout(v, 0).cells
    /\ clone = <<>>
    /\ out = NoOutcome
    /\ locals = NoLocals
    /\ eq = "none"
    /\ nmut = 0

Init == InitWith(FrameInputs \cup CallInputs)

InitCopy == InitWith(CopyInputs)

----------------------------------------------------------------------------
(* Operations *)

\* string ToString() const, line 83, through the template of lines 95-259
ToStringCall ==
    /\ out' = ToString(entry, heap)
    /\ locals' = IF out'.kind = "text" THEN FrameLocals(entry, heap) ELSE NoLocals
    /\ UNCHANGED <<entry, heap, clone, eq, nmut>>

\* unique_ptr<ParsedExpression> Copy() const, line 87
CopyCall ==
    /\ clone = <<>>
    /\ clone' = <<Copy(entry, heap).obj>>
    /\ heap' = Copy(entry, heap).heap
    /\ UNCHANGED <<entry, out, locals, eq, nmut>>

\* static bool Equal(a, b), line 85, on the expression and its copy
EqualCall ==
    /\ clone # <<>>
    /\ eq' = IF Equal(entry, clone[1], heap) THEN "true" ELSE "false"
    /\ UNCHANGED <<entry, heap, clone, out, locals, nmut>>

MutationTexts == {"z"}

\* A rewrite pass changes the copy: a public field of lines 43-75, or a
\* sub-expression reached through one of the copy's pointers
MutateCopy ==
    /\ clone # <<>>
    /\ nmut < MaxMutations
    /\ nmut' = nmut + 1
    /\ \/ /\ \E a \in OwnedAddrs(clone[1]), w \in MutationTexts :
                heap' = [heap EXCEPT ![a] = w]
          /\ UNCHANGED clone
       \/ /\ \E c \in { [clone[1] EXCEPT !.distinct = ~@],
                        [clone[1] EXCEPT !.ignore_nulls = ~@],
                        [clone[1] EXCEPT !.function_name = "g"],
                        [clone[1] EXCEPT !.filter_expr = 0],
                        [clone[1] EXCEPT !.start = "CURRENT_ROW_ROWS"],
                        [clone[1] EXCEPT !.end = "UNBOUNDED_FOLLOWING"],
                        [clone[1] EXCEPT !.exclude_clause = "GROUP"] } :
                clone' = <<c>>
          /\ UNCHANGED heap
    /\ UNCHANGED <<entry, out, locals, eq>>

Next == ToStringCall

NextCopy == ToStringCall \/ CopyCall \/ EqualCall \/ MutateCopy

Spec == Init /\ [][Next]_vars

SpecCopy == InitCopy /\ [][NextCopy]_vars

----------------------------------------------------------------------------
(* Reading a rendered string *)

Count(t, w) == Cardinality({i \in 1..Len(t) : t[i] = w})

\* position of the first atom w of t, 0 when there is none
IndexOf(t, w) ==
    IF \E i \in 1..Len(t) : t[i] = w
    THEN CHOOSE i \in 1..Len(t) : t[i] = w /\ \A j \in 1..(i - 1) : t[j] # w
    ELSE 0

\* t holds the atoms of `piece` from position i on
HasAt(t, i, piece) ==
    /\ i >= 1
    /\ i + Len(piece) - 1 <= Len(t)
    /\ SubSeq(t, i, i + Len(piece) - 1) = piece

OverClause(t) == SubSeq(t, IndexOf(t, "OVER"), Len(t))

UnitsKeywords == {"ROWS", "RANGE"}

FrameKeywords ==
    {"ROWS", "RANGE", "BETWEEN", "UNBOUNDED", "PRECEDING", "FOLLOWING", "CURRENT"}

NoFrameText(t) == \A i \in 1..Len(t) : t[i] \notin FrameKeywords

RequiredOffsetsPresent(e) ==
    /\ e.start \in ExprBoundaries => e.start_expr # 0
    /\ e.end \in ExprBoundaries => e.end_expr # 0

\* an offset expression exactly for the EXPR_* boundaries
BoundaryKindInvariant(e) ==
    /\ e.start \in ExprBoundaries <=> e.start_expr # 0
    /\ e.end \in ExprBoundaries <=> e.end_expr # 0

Renderable(e) ==
    /\ e.start \notin {"INVALID", "UNBOUNDED_FOLLOWING"}
    /\ e.end # "INVALID"
    /\ RequiredOffsetsPresent(e)

DefaultFrame(e) ==
    /\ e.start = "UNBOUNDED_PRECEDING"
    /\ e.end = "CURRENT_ROW_RANGE"
    /\ e.exclude_clause = "NO_OTHER"

Rendered == out.kind # "none"

----------------------------------------------------------------------------
(* Properties *)

\* C1: for every renderable expression, ToString emits no frame text at all
\* (no ROWS, RANGE, BETWEEN or bound keyword) exactly when start is
\* UNBOUNDED_PRECEDING, end is CURRENT_ROW_RANGE and exclude_clause is
\* NO_OTHER; without partitions and orders the OVER clause is then "OVER ()".
C1_FullDefaultElision ==
    (Rendered /\ Renderable(entry)) =>
        /\ out.kind = "text"
        /\ NoFrameText(out.text) <=> DefaultFrame(entry)
        /\ (DefaultFrame(entry) /\ entry.partitions = <<>> /\ entry.orders = <<>>)
              => OverClause(out.text) = <<"OVER", " ", "(", ")">>

C1_Witness ==
    /\ DefaultFrame(entry)
    /\ entry.partitions = <<>> /\ entry.orders = <<>>
    /\ out = Returned(<<"f", "(", "a", ")", " ", "OVER", " ", "(", ")">>)

ExcludeWords(mode) ==
    CASE mode = "CURRENT_ROW" -> <<"CURRENT", " ", "ROW">>
      [] mode = "GROUP" -> <<"GROUP">>
      [] mode = "TIES" -> <<"TIES">>

\* t is "... <units> BETWEEN <from> AND <to> EXCLUDE <mode>)" with both
\* bounds non-empty
FullFrameWithExclude(t, mode) ==
    LET b == IndexOf(t, "BETWEEN")
        a == IndexOf(t, "AND")
        x == IndexOf(t, "EXCLUDE")
    IN  /\ b >= 3
        /\ t[b - 2] \in UnitsKeywords
        /\ t[b - 1] = " " /\ t[b + 1] = " "
        /\ a >= b + 4
        /\ t[a - 1] = " " /\ t[a + 1] = " "
        /\ t[a - 2] # " " /\ t[b + 2] # " "
        /\ x >= a + 4
        /\ t[x - 1] = " " /\ t[x + 1] = " "
        /\ t[x - 2] # " " /\ t[a + 2] # " "
        /\ Count(t, "EXCLUDE") = 1
        /\ SubSeq(t, x + 2, Len(t)) = ExcludeWords(mode) \o <<")">>

\* C2: for every renderable expression with exclude_clause # NO_OTHER,
\* ToString prints the units, " BETWEEN <from> AND <to>" with both bounds
\* non-empty, then " EXCLUDE " and exactly one of CURRENT ROW / GROUP / TIES;
\* UNBOUNDED_PRECEDING .. CURRENT_ROW_RANGE with TIES and no partitions or
\* orders gives "OVER (RANGE BETWEEN UNBOUNDED PRECEDING AND CURRENT ROW
\* EXCLUDE TIES)".
C2_ExcludeForcesFullBounds ==
    (Rendered /\ Renderable(entry) /\ entry.exclude_clause # "NO_OTHER") =>
        /\ out.kind = "text"
        /\ FullFrameWithExclude(out.text, entry.exclude_clause)
        /\ (/\ entry.start = "UNBOUNDED_PRECEDING"
            /\ entry.end = "CURRENT_ROW_RANGE"
            /\ entry.exclude_clause = "TIES"
            /\ entry.partitions = <<>> /\ entry.orders = <<>>)
              => OverClause(out.text) =
                    <<"OVER", " ", "(", "RANGE", " ", "BETWEEN", " ",
                      "UNBOUNDED", " ", "PRECEDING", " ", "AND", " ",
                      "CURRENT", " ", "ROW", " ", "EXCLUDE", " ", "TIES", ")">>

C2_Witness ==
    /\ entry.start = "UNBOUNDED_PRECEDING"
    /\ entry.end = "CURRENT_ROW_RANGE"
    /\ entry.exclude_clause = "TIES"
    /\ entry.partitions = <<>> /\ entry.orders = <<>>
    /\ out.kind = "text"
    /\ Count(out.text, "EXCLUDE") = 1

InvalidBoundary(e) == e.start = "INVALID" \/ e.end = "INVALID"

\* C3 as stated: every expression whose start and end are not INVALID and
\* that satisfies the BoundaryKind invariant renders to a text, and the only
\* failing inputs have an INVALID boundary or lack a required offset.
C3_TotalOnBoundaryKindInvariant ==
    Rendered =>
        /\ (~InvalidBoundary(entry) /\ BoundaryKindInvariant(entry))
              => out.kind = "text"
        /\ out.kind = "error"
              => (InvalidBoundary(entry) \/ ~RequiredOffsetsPresent(entry))

\* C3 amended: every expression whose start is neither INVALID nor
\* UNBOUNDED_FOLLOWING, whose end is not INVALID and that satisfies the
\* BoundaryKind invariant renders to a text; the only failing inputs have an
\* INVALID boundary, an UNBOUNDED_FOLLOWING start, or lack a required offset.
C3_TotalExceptUnboundedFollowingStart ==
    Rendered =>
        /\ (/\ ~InvalidBoundary(entry)
            /\ entry.start # "UNBOUNDED_FOLLOWING"
            /\ BoundaryKindInvariant(entry))
              => out.kind = "text"
        /\ out.kind = "error"
              => \/ InvalidBoundary(entry)
                 \/ entry.start = "UNBOUNDED_FOLLOWING"
                 \/ ~RequiredOffsetsPresent(entry)

C3_Witness ==
    /\ entry.start = "EXPR_FOLLOWING_RANGE"
    /\ entry.end = "UNBOUNDED_PRECEDING"
    /\ BoundaryKindInvariant(entry)
    /\ out.kind = "text"
    /\ Len(out.text) > 0

\* C4: for every expression with start = INVALID or end = INVALID, whatever
\* its other fields, ToString ends in the internal error and returns no text:
\* nothing of the accumulated header / PARTITION BY / ORDER BY is observable.
C4_FailFastOnInvalidBoundary ==
    (Rendered /\ InvalidBoundary(entry)) =>
        /\ out.kind = "error"
        /\ out.text = <<>>
        /\ locals = NoLocals

C4_Witness ==
    /\ entry.start = "EXPR_PRECEDING_ROWS" /\ entry.start_expr # 0
    /\ entry.end = "INVALID"
    /\ entry.partitions # <<>> /\ entry.orders # <<>>
    /\ entry.exclude_clause = "TIES"
    /\ out = Thrown("Unrecognized TO in WindowExpression")

FrameTriples == WindowBoundary \X WindowBoundary \X WindowExcludeMode

WithFrame(e, f) ==
    [e EXCEPT !.start = f[1], !.end = f[2], !.exclude_clause = f[3]]

FrameOf(e) == <<e.start, e.end, e.exclude_clause>>

RowsBoundaries == {"CURRENT_ROW_ROWS", "EXPR_PRECEDING_ROWS", "EXPR_FOLLOWING_ROWS"}

RangeBoundaries == {"CURRENT_ROW_RANGE", "EXPR_PRECEDING_RANGE", "EXPR_FOLLOWING_RANGE"}

\* the frame does not mix a ROWS boundary with a RANGE boundary
UniformUnits(e) ==
    ~(/\ {e.start, e.end} \cap RowsBoundaries # {}
      /\ {e.start, e.end} \cap RangeBoundaries # {})

\* C5 as stated: two renderable expressions that agree on every field except
\* (start, end, exclude_clause) and render to the same text have the same
\* (start, end, exclude_clause).
C5_InjectiveOnFrame ==
    (Rendered /\ Renderable(entry)) =>
        \A f \in FrameTriples :
            (/\ Renderable(WithFrame(entry, f))
             /\ ToString(WithFrame(entry, f), heap) = out)
                => f = FrameOf(entry)

\* C5 amended: two renderable expressions that agree on every field except
\* (start, end, exclude_clause), neither of which mixes a ROWS boundary with
\* a RANGE boundary, and that render to the same text have the same
\* (start, end, exclude_clause).
C5_InjectiveOnUniformUnits ==
    (Rendered /\ Renderable(entry) /\ UniformUnits(entry)) =>
        \A f \in FrameTriples :
            (/\ Renderable(WithFrame(entry, f))
             /\ UniformUnits(WithFrame(entry, f))
             /\ ToString(WithFrame(entry, f), heap) = out)
                => f = FrameOf(entry)

C5_Witness ==
    /\ entry.start = "UNBOUNDED_PRECEDING"
    /\ entry.end = "CURRENT_ROW_RANGE"
    /\ entry.exclude_clause = "GROUP"
    /\ out.kind = "text"
    /\ \E f \in FrameTriples :
          /\ f # FrameOf(entry)
          /\ Renderable(WithFrame(entry, f)) /\ UniformUnits(WithFrame(entry, f))
          /\ ToString(WithFrame(entry, f), heap) # out

\* C6: with distinct set and n >= 1 arguments the text holds "DISTINCT "
\* exactly once, immediately before the first argument; with distinct unset
\* or no argument it holds none.
C6_DistinctPlacement ==
    out.kind = "text" =>
        LET open == IndexOf(out.text, "(")
        IN  IF entry.distinct /\ Len(entry.children) >= 1
            THEN /\ Count(out.text, "DISTINCT") = 1
                 /\ HasAt(out.text, open + 1,
                          <<"DISTINCT", " ", heap[entry.children[1]]>>)
            ELSE Count(out.text, "DISTINCT") = 0

C6_Witness ==
    /\ entry.distinct
    /\ Len(entry.children) = 2
    /\ entry.offset_expr # 0 /\ entry.default_expr # 0
    /\ out.kind = "text"
    /\ HasAt(out.text, 1, <<"f", "(", "DISTINCT", " ", "a", ",", " ", "b", ",", " ", "k">>)

\* C7: with a filter the call's closing parenthesis is emitted once, after
\* any " IGNORE NULLS" and before " FILTER (WHERE p) OVER ("; every returned
\* text has balanced parentheses, 2 and 2 without a filter, 3 and 3 with one.
C7_FilterPlacement ==
    out.kind = "text" =>
        LET t == out.text
            f == IndexOf(t, "FILTER")
            n == IF entry.filter_expr # 0 THEN 3 ELSE 2
        IN  /\ Count(t, "(") = n
            /\ Count(t, ")") = n
            /\ IF entry.filter_expr # 0
               THEN /\ Count(t, "FILTER") = 1
                    /\ HasAt(t, f - 2,
                             <<")", " ", "FILTER", " ", "(", "WHERE", " ",
                               heap[entry.filter_expr], ")", " ", "OVER", " ", "(">>)
                    /\ Count(SubSeq(t, 1, f), ")") = 1
                    /\ entry.ignore_nulls
                          => HasAt(t, f - 6, <<" ", "IGNORE", " ", "NULLS", ")">>)
               ELSE Count(t, "FILTER") = 0

C7_Witness ==
    /\ entry.filter_expr # 0
    /\ entry.ignore_nulls
    /\ Len(entry.children) = 1
    /\ out.kind = "text"
    /\ HasAt(out.text, 1,
             <<"f", "(", "a", " ", "IGNORE", " ", "NULLS", ")", " ", "FILTER", " ",
               "(", "WHERE", " ", "c", ")", " ", "OVER", " ", "(">>)

FramePrinted(t) == \E i \in 1..Len(t) : t[i] \in FrameKeywords

PrintedUnits(t) == {t[i] : i \in {j \in 1..Len(t) : t[j] \in UnitsKeywords}}

\* the units by the last boundary that carries one, the end before the start
UnitsByLastBoundary(e) ==
    CASE e.end \in RowsBoundaries -> "ROWS"
      [] e.end \in RangeBoundaries -> "RANGE"
      [] OTHER -> IF e.start \in RangeBoundaries THEN "RANGE" ELSE "ROWS"

\* C9: whenever ToString prints a frame, the units are those of the end
\* bound when it carries units (ROWS for CURRENT_ROW_ROWS / EXPR_*_ROWS,
\* RANGE for EXPR_*_RANGE and for a printed CURRENT_ROW_RANGE, forced by
\* EXCLUDE or not), else those of the start bound, ROWS when the start is
\* UNBOUNDED_PRECEDING; EXPR_PRECEDING_ROWS with offset 1 up to
\* CURRENT_ROW_ROWS renders "ROWS BETWEEN 1 PRECEDING AND CURRENT ROW".
C9_UnitsSelection ==
    (out.kind = "text" /\ FramePrinted(out.text)) =>
        /\ PrintedUnits(out.text) = {UnitsByLastBoundary(entry)}
        /\ Count(out.text, "ROWS") + Count(out.text, "RANGE") = 1
        /\ locals.units = UnitsByLastBoundary(entry)
        /\ (/\ entry.start = "EXPR_PRECEDING_ROWS"
            /\ heap[entry.start_expr] = "1"
            /\ entry.end = "CURRENT_ROW_ROWS"
            /\ entry.exclude_clause = "NO_OTHER")
              => HasAt(out.text, IndexOf(out.text, "ROWS"),
                       <<"ROWS", " ", "BETWEEN", " ", "1", " ", "PRECEDING", " ",
                         "AND", " ", "CURRENT", " ", "ROW", ")">>)

C9_Witness ==
    /\ entry.start = "CURRENT_ROW_RANGE"
    /\ entry.end = "CURRENT_ROW_ROWS"
    /\ out.kind = "text"
    /\ PrintedUnits(out.text) = {"ROWS"}
    /\ locals.units = "ROWS"

\* C10: on every returned text `from` and `to` are both empty or both
\* non-empty where the frame is appended, whatever exclude_clause is: every
\* printed units keyword is followed by " BETWEEN ", and " EXCLUDE " is never
\* printed without a BETWEEN ... AND frame before it.
C10_BoundsBothOrNeither ==
    out.kind = "text" =>
        LET t == out.text
        IN  /\ locals.from = <<>> <=> locals.to = <<>>
            /\ \A i \in 1..Len(t) :
                  t[i] \in UnitsKeywords => HasAt(t, i + 1, <<" ", "BETWEEN", " ">>)
            /\ Count(t, "BETWEEN") = Count(t, "AND")
            /\ Count(t, "EXCLUDE") > 0 =>
                  /\ 0 < IndexOf(t, "BETWEEN")
                  /\ IndexOf(t, "BETWEEN") < IndexOf(t, "AND")
                  /\ IndexOf(t, "AND") < IndexOf(t, "EXCLUDE")

C10_Witness ==
    /\ entry.start = "UNBOUNDED_PRECEDING"
    /\ entry.end = "CURRENT_ROW_ROWS"
    /\ entry.exclude_clause = "CURRENT_ROW"
    /\ out.kind = "text"
    /\ locals.from = <<"UNBOUNDED", " ", "PRECEDING">>
    /\ locals.to = <<"CURRENT", " ", "ROW">>

\* C8: Equal(s, Copy(s)) holds, and the copy shares no owned sub-expression
\* with s: whatever is done to the copy's fields or sub-expressions, s keeps
\* its value, renders the same text and equals a fresh copy of itself.
C8_CopyEqualNoSharing ==
    /\ [](/\ (eq # "none" /\ nmut = 0) => eq = "true"
          /\ clone # <<>> => OwnedAddrs(entry) \cap OwnedAddrs(clone[1]) = {}
          /\ Equal(entry, Copy(entry, heap).obj, Copy(entry, heap).heap))
    /\ [][/\ DeepValue(entry', heap') = DeepValue(entry, heap)
          /\ ToString(entry', heap') = ToString(entry, heap)]_vars

C8_Witness ==
    /\ clone # <<>>
    /\ nmut >= 1
    /\ \E a \in OwnedAddrs(clone[1]) : heap[a] \in MutationTexts
    /\ eq = "false"
    /\ out.kind = "text"
    /\ OwnedAddrs(entry) # {}
====
